---- MODULE Spec2Model ----
(***************************************************************************)
(* Real-time voice call engine of VeriVox-LedgerDocs (ai-pdf-server).      *)
(*                                                                         *)
(*   SpecCall     CallSessionManager + the /ws/voice/call connection       *)
(*                handler + the session table of OpenAIRealtimeService     *)
(*   SpecBridge   OpenAIRealtimeService._handle_openai_event, one session  *)
(*   SpecDebounce OpenAIRealtimeService._schedule_response_create          *)
(*                                                                         *)
(* The runtime is a single asyncio event loop: code between two awaits     *)
(* that really suspend runs atomically.  The _persist_session_* helpers    *)
(* and vector_store.document_exists contain no suspending await, so an     *)
(* "await" on them does not yield to other tasks.                          *)
(***************************************************************************)
EXTENDS Integers, Sequences, FiniteSets, TLC

(* ---------------------------- bounds ----------------------------------- *)
MaxStarts == 2
MaxResponses == 2
MaxTasks == 3
MaxChunks == 3
MaxFrames == 4
MaxToolCalls == 3
MaxMessages == 22
MaxClock == 2
MaxProxyMessages == 3

(* ------------------------ program constants ---------------------------- *)
VOICE_MAX_CONCURRENT_CALLS_PER_USER == 1
VOICE_SESSION_TIMEOUT_MINUTES == 5
VOICE_SESSION_MAX_DURATION_MINUTES == 60
VOICE_MAX_AUDIO_BYTES_PER_SECOND == 48000
\* asyncio.sleep(0.08) of _send_response_create, in ticks of 20 ms.
DEBOUNCE_TICKS == 4

\* conversation_history keeps the last 20 messages
CALL_HISTORY_LIMIT == 20
BRIDGE_HISTORY_LIMIT == 20

NONE == "none"
Users == {"u1", "u2"}
\* Two connections to /ws/voice/call, enough for two handlers to overlap.
Conns == {1, 2}
Sids == 1..MaxStarts

\* Answers of the ownership oracle (User-Service /internal/.../owner): 200
\* with the caller or with somebody else as owner_id, 404, another status,
\* httpx.RequestError (unreachable, timeout), any other exception.
OracleResponses ==
    {"200_caller", "200_other", "404", "other_status", "request_error",
     "exception"}

VARIABLES
    docExists,       \* vector_store.document_exists(document_id)
    sessions,        \* CallSessionManager.sessions (its keys)
    callSessions,    \* the CallSession objects, by session id
    user_sessions,   \* CallSessionManager.user_sessions (the lists)
    user_keys,       \* the keys of CallSessionManager.user_sessions
    nextSid,         \* next uuid4 handed out by create_session
    persistEnds,     \* calls of _persist_session_end, per session id
    bridgeSessions,  \* OpenAIRealtimeService.sessions, by connection
    openChannels,    \* open channels to the external service, by connection
    pc,              \* position of each connection handler
    user_id,         \* x-user-id header of each connection
    call_session,    \* handler local call_session (0 is None)
    openai_session,  \* handler local openai_session is not None
    fallbacks,       \* fallback_activated events sent, per connection
    last             \* the step just taken and what it sent to the caller

callVars == <<docExists, sessions, callSessions, user_sessions, user_keys, nextSid,
              persistEnds, bridgeSessions, openChannels, pc, user_id,
              call_session, openai_session, fallbacks, last>>

\* OpenAIRealtimeService: the event state of one session.
VARIABLES
    state,                 \* VoiceCallSession.state
    current_response_id,   \* VoiceCallSession._current_response_id (0 is None)
    emitted_ai_speaking,   \* VoiceCallSession._emitted_ai_speaking
    created,               \* responses the channel has announced
    finished,              \* responses whose response.done was handled
    barged,                \* responses that were active at a barge-in
    cancelsSent,           \* response.cancel commands sent to the channel
    emitted,               \* what the last event made the bridge call
    interrupted,           \* responses that were active at an interrupt
    voice_mode,            \* CallSession.voice_mode of the call
    announced              \* responses AI_SPEAKING was emitted for

bridgeVars == <<state, current_response_id, emitted_ai_speaking, created,
                finished, barged, cancelsSent, emitted, interrupted,
                voice_mode, announced>>

\* OpenAIRealtimeService: the response.create debounce of one session.
VARIABLES
    tasks,                  \* the _send_response_create tasks ever created
    response_create_task,   \* VoiceCallSession._response_create_task (0 is None)
    is_active,              \* VoiceCallSession.is_active
    ws_open,                \* the external channel accepts a send
    sinceLast,              \* ticks since the last tool call completed
    batchCalls,             \* tool calls completed in the current batch
    batchSent,              \* response.create requests sent since it began
    end_pc                  \* end_call: "none", "awaiting", "returned"

debVars == <<tasks, response_create_task, is_active, ws_open, sinceLast,
             batchCalls, batchSent, end_pc>>

\* CallSessionManager under the clock: the sessions and their timestamps,
\* in whole minutes.
VARIABLES
    app,                \* lifespan: "starting", then "serving"
    cleanup_task,       \* CallSessionManager._cleanup_task is running
    timed_sessions,     \* CallSessionManager.sessions (its keys)
    idle_minutes,       \* minutes since CallSession.last_activity
    duration_minutes,   \* minutes since CallSession.created_at
    channel_closed      \* sessions whose VoiceCallSession.state is ENDED

sweepVars == <<app, cleanup_task, timed_sessions, idle_minutes,
               duration_minutes, channel_closed>>

\* websocket_voice_call: the receive loop of one connection, by frame.
VARIABLES
    loop_open,                   \* the receive loop is running
    loop_started,                \* handler local openai_session is set
    total_audio_bytes_received,  \* CallSession.total_audio_bytes_received
    channel_audio_bytes,         \* bytes sent on as input_audio_buffer.append
    is_muted,                    \* CallSession.is_muted
    chunks,                      \* audio_chunk frames received so far
    reply                        \* the last frame and the event sent back

audioVars == <<loop_open, loop_started, total_audio_bytes_received,
               channel_audio_bytes, is_muted, chunks, reply>>

\* RealtimeVoiceService and websocket_voice_realtime: one turn-based session.
VARIABLES
    tb_state,       \* VoiceSession.state
    audio_buffer,   \* VoiceSession.audio_buffer (the ids of its chunks)
    cancel_event,   \* VoiceSession.cancel_event is set
    inbox,          \* frames of the caller the handler has not read yet
    frames_sent,    \* frames the caller has sent so far
    hpc,            \* where the handler waits
    outbox,         \* events sent to the caller since the last end_speech
    transitions,    \* the changes of VoiceSession.state so far, as pairs
    interrupt_seen  \* an interrupt frame has been handled

turnVars == <<tb_state, audio_buffer, cancel_event, inbox, frames_sent, hpc,
              outbox, transitions, interrupt_seen>>

\* OpenAIRealtimeService._handle_function_call: the tool calls of one session.
VARIABLES
    fc_pc,          \* the listener: "listen", or "tool" inside a tool call
    fc_received,    \* function-call events received so far
    fc_current,     \* the function call being handled
    fc_outputs,     \* function_call_output items sent to the channel
    fc_scheduled,   \* calls of _schedule_response_create
    fc_is_active,   \* VoiceCallSession.is_active
    fc_ws_open      \* the external channel accepts a send

toolVars == <<fc_pc, fc_received, fc_current, fc_outputs, fc_scheduled,
              fc_is_active, fc_ws_open>>

\* CallSession.conversation_history and VoiceCallSession.conversation_history
\* of one call; the k-th message added to a history is written k.
VARIABLES
    hist_clock,           \* datetime.now(), in ticks
    cs_last_activity,     \* CallSession.last_activity
    cs_history,           \* CallSession.conversation_history
    cs_added,             \* add_message calls so far
    vc_history,           \* VoiceCallSession.conversation_history
    vc_added              \* add_to_history calls so far

histVars == <<hist_clock, cs_last_activity, cs_history, cs_added, vc_history,
              vc_added>>

\* WebSocketProxy: one proxied connection, after both ends are connected.
VARIABLES
    client_conn,     \* the caller's connection: "open" or "closed"
    client_state,    \* client_ws.client_state as Starlette keeps it
    backend_conn,    \* the connection to the backend: "open" or "closed"
    to_backend_task, \* forward_to_backend: "receiving" or "done"
    to_client_task,  \* forward_to_client: "iterating" or "done"
    proxy_pc,        \* proxy_websocket: "gather", then "returned"
    sent_to_backend, \* messages passed to backend_ws.send
    sent_to_client,  \* messages passed to client_ws.send_text
    dropped          \* backend messages read and not forwarded

proxyVars == <<client_conn, client_state, backend_conn, to_backend_task,
               to_client_task, proxy_pc, sent_to_backend, sent_to_client,
               dropped>>

vars == <<callVars, bridgeVars, debVars, sweepVars, audioVars, turnVars,
          toolVars, histVars, proxyVars>>

\* What the steps of one component leave alone.
notCallVars == <<bridgeVars, debVars, sweepVars, audioVars, turnVars,
                 toolVars, histVars, proxyVars>>
notBridgeVars == <<callVars, debVars, sweepVars, audioVars, turnVars,
                   toolVars, histVars, proxyVars>>
notDebVars == <<callVars, bridgeVars, sweepVars, audioVars, turnVars,
                toolVars, histVars, proxyVars>>
notSweepVars == <<callVars, bridgeVars, debVars, audioVars, turnVars,
                  toolVars, histVars, proxyVars>>
notAudioVars == <<callVars, bridgeVars, debVars, sweepVars, turnVars,
                  toolVars, histVars, proxyVars>>
notTurnVars == <<callVars, bridgeVars, debVars, sweepVars, audioVars,
                 toolVars, histVars, proxyVars>>
notToolVars == <<callVars, bridgeVars, debVars, sweepVars, audioVars,
                 turnVars, histVars, proxyVars>>
notHistVars == <<callVars, bridgeVars, debVars, sweepVars, audioVars,
                 turnVars, toolVars, proxyVars>>
notProxyVars == <<callVars, bridgeVars, debVars, sweepVars, audioVars,
                  turnVars, toolVars, histVars>>

NoCallSession == [user_id |-> NONE, state |-> "unallocated",
                  voice_mode |-> NONE, conn |-> 0]
NoBridgeSession == [ws |-> NONE, state |-> NONE, is_active |-> FALSE]
Step(op, c, info, code) == [op |-> op, conn |-> c, info |-> info, code |-> code]

InitCall ==
    /\ docExists = TRUE
    /\ sessions = {}
    /\ callSessions = [s \in Sids |-> NoCallSession]
    /\ user_sessions = [u \in Users |-> <<>>]
    /\ user_keys = {}
    /\ nextSid = 1
    /\ persistEnds = [s \in Sids |-> 0]
    /\ bridgeSessions = [c \in Conns |-> NoBridgeSession]
    /\ openChannels = [c \in Conns |-> 0]
    /\ pc = [c \in Conns |-> "idle"]
    /\ user_id = [c \in Conns |-> NONE]
    /\ call_session = [c \in Conns |-> 0]
    /\ openai_session = [c \in Conns |-> FALSE]
    /\ fallbacks = [c \in Conns |-> 0]
    /\ last = Step("init", 0, NONE, NONE)

(* ------------------- CallSessionManager helpers ------------------------ *)

\* create_session: the concurrent call limit.
LimitReached(u, us) == Len(us[u]) >= VOICE_MAX_CONCURRENT_CALLS_PER_USER

\* A create_session that goes on without looking at the answer of
\* document_exists.
M_DocumentCheckPasses(exists) == TRUE

\* create_session: the document check.
DocumentCheckPasses(exists) == exists

\* A verify_document_ownership that takes every 200 answer as "owner",
\* without comparing owner_id with the caller.
M_VerifyDocumentOwnership(resp) == resp # "other_status"

\* verify_document_ownership: the answer for each oracle outcome.
VerifyDocumentOwnership(resp) ==
    CASE resp = "200_caller" -> TRUE
      [] resp = "200_other" -> FALSE
      [] resp = "404" -> TRUE
      [] resp = "other_status" -> FALSE
      [] resp = "request_error" -> TRUE
      [] OTHER -> TRUE

\* An end_session without the early return for a session that is not there.
M_EndSessionFound(sid, reg) == TRUE

\* end_session: sessions.pop(session_id, None) found a session.
EndSessionFound(sid, reg) == sid \in reg

\* An end_session that looks the session up and leaves it registered.
M_RegistryAfterEnd(S) == sessions

\* end_session: sessions.pop(session_id, None) takes the session out.
RegistryAfterEnd(S) == sessions \ S

\* An end_session that leaves the empty list of a caller in place.
M_KeysAfterEnd(keys, lists) == keys

\* end_session: the entry of a caller whose list has become empty is deleted.
KeysAfterEnd(keys, lists) == {u \in keys : lists[u] # <<>>}

\* The registry after end_session was called on every id of S.
EndSessions(S) ==
    LET ended == {s \in S : EndSessionFound(s, sessions)} IN
    /\ sessions' = RegistryAfterEnd(S)
    /\ callSessions' = [s \in Sids |->
          IF s \in ended THEN [callSessions[s] EXCEPT !.state = "ended"]
          ELSE callSessions[s]]
    /\ persistEnds' = [s \in Sids |->
          IF s \in ended THEN persistEnds[s] + 1 ELSE persistEnds[s]]
    /\ user_sessions' = [u \in Users |->
          SelectSeq(user_sessions[u], LAMBDA x : x \notin ended)]
    /\ user_keys' = KeysAfterEnd(user_keys, user_sessions')

\* cleanup_expired_sessions: one run of the sweep, as _cleanup_loop makes it
\* once start_cleanup_task has been called (SpecSweep follows the lifespan
\* that decides this); S are the registered sessions for which is_expired()
\* answers True by now.
CleanupExpiredSessions(S) ==
    /\ S # {}
    /\ S \subseteq sessions
    /\ EndSessions(S)
    /\ last' = Step("sweep", 0, NONE, NONE)
    /\ UNCHANGED <<docExists, nextSid, bridgeSessions, openChannels, pc,
                   call_session, openai_session, fallbacks, user_id>>
    /\ UNCHANGED notCallVars

\* The document is deleted from the vector store.
DeleteDocument ==
    /\ docExists
    /\ docExists' = FALSE
    /\ last' = Step("delete_document", 0, NONE, NONE)
    /\ UNCHANGED <<sessions, callSessions, user_sessions, user_keys, nextSid, persistEnds,
                   bridgeSessions, openChannels, pc, call_session,
                   openai_session, fallbacks, user_id>>
    /\ UNCHANGED notCallVars

(* ------------------ websocket_voice_call handler ----------------------- *)

\* The connection is opened: the document check, then accept.
Connect(c, u) ==
    /\ pc[c] = "idle"
    /\ IF docExists
       THEN pc' = [pc EXCEPT ![c] = "loop"] /\ user_id' = [user_id EXCEPT ![c] = u]
       ELSE pc' = [pc EXCEPT ![c] = "rejected"] /\ UNCHANGED user_id
    /\ last' = Step("connect", c, NONE, NONE)
    /\ UNCHANGED <<docExists, sessions, callSessions, user_sessions, user_keys, nextSid,
                   persistEnds, bridgeSessions, openChannels, call_session,
                   openai_session, fallbacks>>
    /\ UNCHANGED notCallVars

\* start_call received: create_session up to its first suspending await.
RecvStartCall(c) ==
    /\ pc[c] = "loop"
    /\ nextSid <= MaxStarts
    /\ LET doc == IF docExists THEN "doc_exists" ELSE "doc_missing" IN
       IF LimitReached(user_id[c], user_sessions)
            \/ ~DocumentCheckPasses(docExists)
       THEN /\ last' = Step("start_call", c, doc, "validation_error")
            /\ UNCHANGED pc
       ELSE /\ last' = Step("start_call", c, doc, NONE)
            /\ pc' = [pc EXCEPT ![c] = "verify_owner"]
    /\ UNCHANGED <<docExists, sessions, callSessions, user_sessions, user_keys, nextSid,
                   persistEnds, bridgeSessions, openChannels, call_session,
                   openai_session, fallbacks, user_id>>
    /\ UNCHANGED notCallVars

\* The ownership oracle answers and create_session finishes.  On success the
\* handler enters OpenAIRealtimeService.start_call, which fetches the document
\* context (no state changes while it waits), registers the VoiceCallSession
\* under the connection's session id and starts to connect.
OwnershipReply(c, resp) ==
    /\ pc[c] = "verify_owner"
    /\ nextSid <= MaxStarts
    /\ IF VerifyDocumentOwnership(resp)
       THEN /\ sessions' = sessions \cup {nextSid}
            /\ callSessions' = [callSessions EXCEPT ![nextSid] =
                  [user_id |-> user_id[c], state |-> "initializing",
                   voice_mode |-> "openai_realtime", conn |-> c]]
            /\ user_sessions' = [user_sessions EXCEPT ![user_id[c]] =
                  Append(@, nextSid)]
            /\ user_keys' = user_keys \cup {user_id[c]}
            /\ nextSid' = nextSid + 1
            /\ call_session' = [call_session EXCEPT ![c] = nextSid]
            /\ bridgeSessions' = [bridgeSessions EXCEPT ![c] =
                  [ws |-> NONE, state |-> "connecting", is_active |-> TRUE]]
            /\ last' = Step("ownership", c, resp, NONE)
            /\ pc' = [pc EXCEPT ![c] = "bridge_connect"]
       ELSE /\ last' = Step("ownership", c, resp, "permission_denied")
            /\ pc' = [pc EXCEPT ![c] = "loop"]
            /\ UNCHANGED <<sessions, callSessions, user_sessions, user_keys, nextSid,
                           call_session, bridgeSessions>>
    /\ UNCHANGED <<docExists, persistEnds, openChannels, openai_session,
                   fallbacks, user_id>>
    /\ UNCHANGED notCallVars

\* switch_to_fallback: the CallSession objects afterwards.
SwitchToFallback(sid) ==
    IF sid \in sessions
    THEN [callSessions EXCEPT ![sid].voice_mode = "whisper_tts"]
    ELSE callSessions

\* activate_session: the CallSession objects afterwards.
ActivateSession(sid) ==
    IF sid \in sessions
    THEN [callSessions EXCEPT ![sid].state = "active"]
    ELSE callSessions

\* The event the "except Exception" branch of start_call sends.
StartCallFailureEvent(cs) ==
    IF cs # 0 THEN "fallback_activated" ELSE "call_start_failed"

\* The connection attempt to the external channel ends: "ok" (the session is
\* activated and, once the greeting is there, call_started is sent),
\* "connect_fail" (websockets.connect raises) or "configure_fail" (the
\* session.update send raises on the channel just opened).
BridgeConnect(c, outcome) ==
    /\ pc[c] = "bridge_connect"
    /\ IF outcome = "ok"
       THEN /\ bridgeSessions' = [bridgeSessions EXCEPT ![c] =
                  [ws |-> "open", state |-> "connected", is_active |-> TRUE]]
            /\ openChannels' = [openChannels EXCEPT ![c] = @ + 1]
            /\ openai_session' = [openai_session EXCEPT ![c] = TRUE]
            /\ callSessions' = ActivateSession(call_session[c])
            /\ last' = Step("bridge_connect", c, outcome, "call_started")
            /\ UNCHANGED fallbacks
       ELSE /\ bridgeSessions' = [bridgeSessions EXCEPT ![c] =
                  [ws |-> IF outcome = "configure_fail" THEN "open" ELSE NONE,
                   state |-> "error", is_active |-> TRUE]]
            /\ openChannels' = [openChannels EXCEPT ![c] =
                  IF outcome = "configure_fail" THEN @ + 1 ELSE @]
            /\ LET ev == StartCallFailureEvent(call_session[c]) IN
               /\ last' = Step("bridge_connect", c, outcome, ev)
               /\ IF ev = "fallback_activated"
                  THEN /\ callSessions' = SwitchToFallback(call_session[c])
                       /\ fallbacks' = [fallbacks EXCEPT ![c] = @ + 1]
                  ELSE UNCHANGED <<callSessions, fallbacks>>
            /\ UNCHANGED openai_session
    /\ pc' = [pc EXCEPT ![c] = "loop"]
    /\ UNCHANGED <<docExists, sessions, user_sessions, user_keys, nextSid, persistEnds,
                   call_session, user_id>>
    /\ UNCHANGED notCallVars

\* audio_chunk received: what the handler does with it.
AudioChunkResult(started, b) ==
    IF ~started THEN "call_not_started"
    ELSE IF b.ws = "open" /\ b.is_active THEN "sent_to_duplex" ELSE "dropped"

RecvAudioChunk(c) ==
    /\ pc[c] = "loop"
    /\ last' = Step("audio_chunk", c,
                    IF fallbacks[c] > 0 THEN "after_fallback" ELSE NONE,
                    AudioChunkResult(openai_session[c], bridgeSessions[c]))
    /\ UNCHANGED <<docExists, sessions, callSessions, user_sessions, user_keys, nextSid,
                   persistEnds, bridgeSessions, openChannels, pc, call_session,
                   openai_session, fallbacks, user_id>>
    /\ UNCHANGED notCallVars

\* finally: end_call runs only when the handler holds an openai_session.
TeardownEndsBridge(started) == started

\* The receive loop is left (end_call, disconnect or an exception) and the
\* finally block runs: openai_realtime_service.end_call, end_session, then
\* call_ended.  The handler returns, its locals are gone.
Teardown(c, how) ==
    /\ pc[c] = "loop"
    /\ IF TeardownEndsBridge(openai_session[c])
       THEN /\ bridgeSessions' = [bridgeSessions EXCEPT ![c] = NoBridgeSession]
            /\ openChannels' = [openChannels EXCEPT ![c] =
                  IF bridgeSessions[c].ws = "open" THEN @ - 1 ELSE @]
       ELSE UNCHANGED <<bridgeSessions, openChannels>>
    /\ IF call_session[c] # 0
       THEN /\ EndSessions({call_session[c]})
            /\ last' = Step("teardown", c,
                  IF call_session[c] \in sessions THEN "ended" ELSE "absent",
                  "call_ended")
       ELSE /\ UNCHANGED <<sessions, callSessions, persistEnds, user_sessions, user_keys>>
            /\ last' = Step("teardown", c, NONE, "call_ended")
    /\ pc' = [pc EXCEPT ![c] = "done"]
    /\ call_session' = [call_session EXCEPT ![c] = 0]
    /\ openai_session' = [openai_session EXCEPT ![c] = FALSE]
    /\ UNCHANGED <<docExists, nextSid, fallbacks, user_id>>
    /\ UNCHANGED notCallVars

NextCall ==
    \/ \E c \in Conns, u \in Users : Connect(c, u)
    \/ \E c \in Conns : RecvStartCall(c)
    \/ \E c \in Conns, resp \in OracleResponses : OwnershipReply(c, resp)
    \/ \E c \in Conns, o \in {"ok", "connect_fail", "configure_fail"} :
          BridgeConnect(c, o)
    \/ \E c \in Conns : RecvAudioChunk(c)
    \/ \E c \in Conns, how \in {"end_call", "disconnect", "exception"} :
          Teardown(c, how)
    \/ \E S \in SUBSET Sids : CleanupExpiredSessions(S)
    \/ DeleteDocument


(* ======================= claims under SpecCall ========================= *)

\* C1: in every reachable state every caller has at most
\* VOICE_MAX_CONCURRENT_CALLS_PER_USER sessions listed in user_sessions, also
\* while several create_session calls wait for the ownership oracle.
C1_ConcurrentLimit ==
    \A u \in Users : Len(user_sessions[u]) <= VOICE_MAX_CONCURRENT_CALLS_PER_USER

\* C4: once the connection handler has returned, the bridge holds no session
\* entry and no open channel for the connection's session id, and the manager
\* holds no session created on that connection.
C4_TeardownReleasesAll ==
    \A c \in Conns : pc[c] = "done" =>
        /\ bridgeSessions[c] = NoBridgeSession
        /\ openChannels[c] = 0
        /\ \A s \in sessions : callSessions[s].conn # c

\* C5: end_session on a session that is not registered changes neither
\* sessions nor user_sessions and calls no persistence sink, so the end of a
\* session is persisted at most once, also when the sweep and the teardown
\* both end it.
C5_EndSessionIdempotent ==
    /\ [](\A s \in Sids : persistEnds[s] <= 1)
    /\ [][(last'.op = "teardown" /\ last'.info = "absent") =>
            /\ sessions' = sessions
            /\ user_sessions' = user_sessions
            /\ callSessions' = callSessions
            /\ persistEnds' = persistEnds]_callVars

\* The sweep ended the session of a connection, then the teardown of that
\* connection called end_session on it again.
C5_Witness ==
    /\ last.op = "teardown"
    /\ last.info = "absent"
    /\ \E s \in Sids : /\ callSessions[s].conn = last.conn
                       /\ callSessions[s].state = "ended"
                       /\ persistEnds[s] = 1

\* C6: when the oracle answers with an owner other than the caller, start_call
\* sends error permission_denied, no session is registered or activated and
\* the external channel is not touched.
C6_PermissionDenied ==
    [][(last'.op = "ownership" /\ last'.info = "200_other") =>
          /\ last'.code = "permission_denied"
          /\ sessions' = sessions
          /\ user_sessions' = user_sessions
          /\ callSessions' = callSessions
          /\ nextSid' = nextSid
          /\ bridgeSessions' = bridgeSessions
          /\ openChannels' = openChannels
          /\ openai_session' = openai_session
          /\ pc'[last'.conn] = "loop"]_callVars

\* The oracle reported another owner and the caller got permission_denied.
C6_Witness ==
    /\ last.op = "ownership"
    /\ last.info = "200_other"
    /\ last.code = "permission_denied"

\* C7: create_session raises PermissionError exactly when the oracle returned
\* an owner that differs from the caller; every other outcome of the oracle
\* lets the session be created.
C7_DeniedOnlyOnMismatch ==
    last.op = "ownership" =>
        (last.code = "permission_denied" <=> last.info = "200_other")

\* C8 as claimed: a start_call for a document that does not exist fails with
\* a not-found error, which is not the validation error.
C8_NotFoundError ==
    (last.op = "start_call" /\ last.info = "doc_missing") =>
        last.code = "not_found"

\* C8 as amended: a start_call for a document that does not exist fails with
\* error validation_error, registers no session and never reaches the bridge:
\* the handler stays in its receive loop.
C8_MissingDocumentRejected ==
    [][(last'.op = "start_call" /\ last'.info = "doc_missing") =>
          /\ last'.code = "validation_error"
          /\ sessions' = sessions
          /\ user_sessions' = user_sessions
          /\ callSessions' = callSessions
          /\ nextSid' = nextSid
          /\ bridgeSessions' = bridgeSessions
          /\ openChannels' = openChannels
          /\ pc' = pc]_callVars

\* A start_call arrived after the document was deleted and was refused.
C8_Witness ==
    /\ last.op = "start_call"
    /\ last.info = "doc_missing"
    /\ last.code = "validation_error"
    /\ ~docExists

\* C9: on one connection fallback_activated is sent at most once.
C9_FallbackAtMostOnce == \A c \in Conns : fallbacks[c] <= 1

\* C10: after fallback_activated an audio_chunk is not refused as belonging to
\* a call that was not started.
C10_AudioAcceptedAfterFallback ==
    ~(/\ last.op = "audio_chunk"
      /\ last.info = "after_fallback"
      /\ last.code = "call_not_started")

\* C20: no session in the registry is in state ENDED, and the id of a
\* session that has been ended is not in the registry after any later step.
C20_EndedNeverRegistered ==
    [][\A s \in Sids :
          /\ s \in sessions' => callSessions'[s].state # "ended"
          /\ callSessions[s].state = "ended" => s \notin sessions']_vars

\* A session was ended and a session created after it is registered.
C20_Witness ==
    \E s, t \in Sids :
        /\ s < t
        /\ callSessions[s].state = "ended"
        /\ s \notin sessions
        /\ t \in sessions

\* C26: the two indexes of the registry agree: an id is listed under a
\* caller exactly when the registry holds it for that caller, each id is
\* listed once, and the callers with an entry are those with a list that is
\* not empty.
C26_RegistryIndexesAgree ==
    /\ \A u \in Users, s \in Sids :
          (\E i \in 1..Len(user_sessions[u]) : user_sessions[u][i] = s)
             <=> (s \in sessions /\ callSessions[s].user_id = u)
    /\ \A u \in Users : \A i, j \in 1..Len(user_sessions[u]) :
          user_sessions[u][i] = user_sessions[u][j] => i = j
    /\ \A u \in Users : u \in user_keys <=> user_sessions[u] # <<>>

\* A caller's only session was ended while another caller still has one.
C26_Witness ==
    \E u, v \in Users :
        /\ u \notin user_keys
        /\ v \in user_keys
        /\ \E s \in Sids : /\ callSessions[s].user_id = u
                           /\ callSessions[s].state = "ended"

(* ============ OpenAIRealtimeService._handle_openai_event =============== *)
(* One VoiceCallSession and the event stream of its external channel.  The *)
(* channel is an ordered stream: response.created of a response comes      *)
(* before its fragments, response.done after them; fragments of a          *)
(* response the service was told to cancel may still be on their way.      *)

Rids == 1..MaxResponses

Emit(ev, cb, rid) == [event |-> ev, callback |-> cb, rid |-> rid]

InitBridge ==
    /\ state = "connected"
    /\ current_response_id = 0
    /\ emitted_ai_speaking = FALSE
    /\ created = {}
    /\ finished = {}
    /\ barged = {}
    /\ cancelsSent = 0
    /\ emitted = Emit(NONE, NONE, 0)
    /\ interrupted = {}
    /\ voice_mode = "openai_realtime"
    /\ announced = {}

\* speech_started: session._current_response_id = None.
InvalidatedResponseId(cur) == 0

\* The staleness filter of the response.audio.delta, transcript and done
\* handlers: response_id and _current_response_id and response_id != current.
IsStale(rid, cur) == rid # 0 /\ cur # 0 /\ rid # cur

\* input_audio_buffer.speech_started
SpeechStarted ==
    /\ cancelsSent' = IF state = "ai_speaking" /\ cancelsSent < MaxResponses
                      THEN cancelsSent + 1 ELSE cancelsSent
    /\ barged' = IF state = "ai_speaking" /\ current_response_id # 0
                 THEN barged \cup {current_response_id} ELSE barged
    /\ current_response_id' = InvalidatedResponseId(current_response_id)
    /\ emitted_ai_speaking' = FALSE
    /\ state' = "user_speaking"
    /\ emitted' = Emit("speech_started", "on_state_change", 0)
    /\ UNCHANGED <<created, finished>>
    /\ UNCHANGED <<interrupted, voice_mode, announced>>
    /\ UNCHANGED notBridgeVars

\* input_audio_buffer.speech_stopped
SpeechStopped ==
    /\ state' = "processing"
    /\ emitted' = Emit("speech_stopped", "on_state_change", 0)
    /\ UNCHANGED <<current_response_id, emitted_ai_speaking, created, finished,
                   barged, cancelsSent>>
    /\ UNCHANGED <<interrupted, voice_mode, announced>>
    /\ UNCHANGED notBridgeVars

\* response.created for a new response r
ResponseCreated(r) ==
    /\ r \notin created
    /\ created' = created \cup {r}
    /\ current_response_id' = r
    /\ emitted_ai_speaking' = FALSE
    /\ emitted' = Emit("response.created", NONE, r)
    /\ UNCHANGED <<state, finished, barged, cancelsSent>>
    /\ UNCHANGED <<interrupted, voice_mode, announced>>
    /\ UNCHANGED notBridgeVars

\* response.audio.delta of response r; hasAudio: the delta field is not empty
AudioDelta(r, hasAudio) ==
    /\ r \in created \ finished
    /\ IF IsStale(r, current_response_id)
       THEN /\ emitted' = Emit("response.audio.delta", NONE, r)
            /\ UNCHANGED <<state, emitted_ai_speaking>>
       ELSE /\ state' = IF emitted_ai_speaking THEN state ELSE "ai_speaking"
            /\ emitted_ai_speaking' = TRUE
            /\ emitted' = Emit("response.audio.delta",
                               IF hasAudio THEN "on_audio"
                               ELSE IF emitted_ai_speaking THEN NONE
                               ELSE "on_state_change", r)
    /\ announced' = IF IsStale(r, current_response_id) \/ emitted_ai_speaking
                    THEN announced ELSE announced \cup {r}
    /\ UNCHANGED <<current_response_id, created, finished, barged, cancelsSent>>
    /\ UNCHANGED <<interrupted, voice_mode>>
    /\ UNCHANGED notBridgeVars

\* response.done of response r with status st
ResponseDone(r, st) ==
    /\ r \in created \ finished
    /\ finished' = finished \cup {r}
    /\ IF st = "cancelled" \/ IsStale(r, current_response_id)
       THEN /\ emitted' = Emit("response.done", NONE, r)
            /\ UNCHANGED state
       ELSE /\ state' = "connected"
            /\ emitted' = Emit("response.done", "on_state_change", r)
    /\ UNCHANGED <<current_response_id, emitted_ai_speaking, created, barged,
                   cancelsSent>>
    /\ UNCHANGED <<interrupted, voice_mode, announced>>
    /\ UNCHANGED notBridgeVars

\* error event of the channel: the bridge hands the message to on_error,
\* which sends error openai_error to the caller.
ChannelError ==
    /\ emitted' = Emit("error", "on_error", 0)
    /\ UNCHANGED <<state, current_response_id, emitted_ai_speaking, created,
                   finished, barged, cancelsSent>>
    /\ UNCHANGED <<interrupted, voice_mode, announced>>
    /\ UNCHANGED notBridgeVars

\* interrupt frame of the caller: OpenAIRealtimeService.interrupt sends
\* response.cancel and input_audio_buffer.clear to the channel.
Interrupt ==
    /\ cancelsSent' = IF cancelsSent < MaxResponses THEN cancelsSent + 1
                      ELSE cancelsSent
    /\ interrupted' = IF state = "ai_speaking" /\ current_response_id # 0
                      THEN interrupted \cup {current_response_id}
                      ELSE interrupted
    /\ emitted' = Emit("interrupt", NONE, 0)
    /\ UNCHANGED <<state, current_response_id, emitted_ai_speaking, created,
                   finished, barged, voice_mode, announced>>
    /\ UNCHANGED notBridgeVars

NextBridge ==
    \/ SpeechStarted
    \/ SpeechStopped
    \/ ChannelError
    \/ Interrupt
    \/ \E r \in Rids : ResponseCreated(r)
    \/ \E r \in Rids, hasAudio \in BOOLEAN : AudioDelta(r, hasAudio)
    \/ \E r \in Rids, st \in {"completed", "cancelled"} : ResponseDone(r, st)


\* C2: no audio fragment of a response that was active at a barge-in is
\* handed to on_audio after that barge-in.
C2_NoStaleAudioAfterBargeIn ==
    ~(/\ emitted.event = "response.audio.delta"
      /\ emitted.callback = "on_audio"
      /\ emitted.rid \in barged)

\* C13: once an error event of the channel has been handled, the bridge
\* session is in state ERROR and the call has been switched to the fallback:
\* its voice_mode is WHISPER_TTS.
C13_ChannelErrorFallsBack ==
    emitted.event = "error" => (state = "error" /\ voice_mode = "whisper_tts")

\* C14: no audio fragment of a response that was being spoken when the
\* caller sent interrupt is handed to on_audio after that interrupt.
C14_NoAudioAfterInterrupt ==
    ~(/\ emitted.event = "response.audio.delta"
      /\ emitted.callback = "on_audio"
      /\ emitted.rid \in interrupted)

\* C22: the AI_SPEAKING state change is emitted at most once for a response:
\* a fragment that makes the bridge emit it belongs to a response it has not
\* been emitted for before.
C22_AiSpeakingOncePerResponse ==
    [][(/\ emitted'.event = "response.audio.delta"
        /\ ~emitted_ai_speaking
        /\ emitted_ai_speaking') => emitted'.rid \notin announced]_vars

\* C21: a response.done for a response that is not the tracked one, the
\* tracked id having been invalidated by a barge-in included, changes no
\* state and calls on_state_change for nothing.
C21_DoneOnlyForTrackedResponse ==
    [][(emitted'.event = "response.done"
          /\ emitted'.rid # current_response_id) =>
             (state' = state /\ emitted'.callback = NONE)]_vars

(* ========= OpenAIRealtimeService._schedule_response_create ============= *)
(* The debounce of response.create for one session.  Time advances in      *)
(* ticks; a sleeping task whose delay has passed runs before time advances *)
(* further and before a tool call that completes later is handled.         *)

Tasks == 1..MaxTasks

NoTask == [status |-> "unused", left |-> 0]

InitDebounce ==
    /\ tasks = [t \in Tasks |-> NoTask]
    /\ response_create_task = 0
    /\ is_active = TRUE
    /\ ws_open = TRUE
    /\ sinceLast = DEBOUNCE_TICKS
    /\ batchCalls = 0
    /\ batchSent = 0
    /\ end_pc = "none"

Sleeping(t) == tasks[t].status = "sleeping"
Due(t) == Sleeping(t) /\ tasks[t].left = 0
Created == {t \in Tasks : tasks[t].status # "unused"}

\* A re-arm that leaves the pending task running.
M_CancelPending(ts, rt) == ts

\* "Cancel any pending task": the task the session refers to is cancelled
\* unless it is done.
CancelPending(ts, rt) ==
    IF rt # 0 /\ ts[rt].status = "sleeping"
    THEN [ts EXCEPT ![rt] = [status |-> "cancelled", left |-> 0]]
    ELSE ts

\* A tool call completed: its function_call_output was sent, which takes an
\* open channel, then _schedule_response_create(session).
ScheduleResponseCreate ==
    /\ ws_open
    /\ Cardinality(Created) < MaxTasks
    /\ \A t \in Tasks : ~Due(t)
    /\ LET n == Cardinality(Created) + 1 IN
       /\ tasks' = [CancelPending(tasks, response_create_task) EXCEPT ![n] =
             [status |-> "sleeping", left |-> DEBOUNCE_TICKS]]
       /\ response_create_task' = n
    /\ IF batchCalls > 0 /\ sinceLast < DEBOUNCE_TICKS
       THEN batchCalls' = batchCalls + 1 /\ UNCHANGED batchSent
       ELSE batchCalls' = 1 /\ batchSent' = 0
    /\ sinceLast' = 0
    /\ UNCHANGED <<is_active, ws_open, end_pc>>
    /\ UNCHANGED notDebVars

\* 20 ms pass.
Tick ==
    /\ \A t \in Tasks : ~Due(t)
    /\ sinceLast < DEBOUNCE_TICKS \/ \E t \in Tasks : Sleeping(t)
    /\ tasks' = [t \in Tasks |->
          IF Sleeping(t) THEN [tasks[t] EXCEPT !.left = @ - 1] ELSE tasks[t]]
    /\ sinceLast' = IF sinceLast < DEBOUNCE_TICKS THEN sinceLast + 1 ELSE sinceLast
    /\ UNCHANGED <<response_create_task, is_active, ws_open, batchCalls,
                   batchSent, end_pc>>
    /\ UNCHANGED notDebVars

\* _send_response_create after its sleep: the reference is cleared and
\* response.create is sent if the session is active and the send succeeds.
SendResponseCreate(t) ==
    /\ Due(t)
    /\ tasks' = [tasks EXCEPT ![t] = [status |-> "done", left |-> 0]]
    /\ response_create_task' = 0
    /\ batchSent' = IF is_active /\ ws_open THEN batchSent + 1 ELSE batchSent
    /\ UNCHANGED <<is_active, ws_open, sinceLast, batchCalls, end_pc>>
    /\ UNCHANGED notDebVars

\* end_call up to its first await: is_active is cleared; a pending task is
\* cancelled and end_call waits for it to finish.  With no pending task
\* end_call goes straight on to close the channel and returns.
EndCallDebounce ==
    /\ is_active
    /\ is_active' = FALSE
    /\ tasks' = CancelPending(tasks, response_create_task)
    /\ IF response_create_task # 0 /\ Sleeping(response_create_task)
       THEN /\ end_pc' = "awaiting"
            /\ UNCHANGED ws_open
       ELSE /\ end_pc' = "returned"
            /\ ws_open' = FALSE
    /\ UNCHANGED <<response_create_task, sinceLast, batchCalls, batchSent>>
    /\ UNCHANGED notDebVars

\* The cancelled task has finished and end_call resumes: the reference of
\* the session is set to None, whatever task it names by now, and the
\* channel is closed.
EndCallReturns ==
    /\ end_pc = "awaiting"
    /\ end_pc' = "returned"
    /\ response_create_task' = 0
    /\ ws_open' = FALSE
    /\ UNCHANGED <<tasks, is_active, sinceLast, batchCalls, batchSent>>
    /\ UNCHANGED notDebVars

\* The external service closes the channel: a later send raises.
ChannelCloses ==
    /\ ws_open
    /\ ws_open' = FALSE
    /\ UNCHANGED <<tasks, response_create_task, is_active, sinceLast, batchCalls,
                   batchSent, end_pc>>
    /\ UNCHANGED notDebVars

NextDebounce ==
    \/ ScheduleResponseCreate
    \/ Tick
    \/ \E t \in Tasks : SendResponseCreate(t)
    \/ EndCallDebounce
    \/ EndCallReturns
    \/ ChannelCloses

\* C3: a batch of tool calls, each completing less than the debounce delay
\* after the one before, gets no more than one response.create, sent only
\* when the delay has passed since the last of them, and exactly one once no
\* timer is pending if the session is still active and its channel open.
C3_OneResponseCreatePerBatch ==
    /\ batchSent <= 1
    /\ batchSent = 1 => sinceLast = DEBOUNCE_TICKS
    /\ (/\ batchCalls >= 1
        /\ is_active
        /\ ws_open
        /\ \A t \in Tasks : ~Sleeping(t)) => batchSent = 1

\* Two or more tool calls fell into one batch and one request was sent.
C3_Witness ==
    /\ batchCalls >= 2
    /\ batchSent = 1
    /\ is_active
    /\ ws_open

\* C23: once end_call has returned no debounce task of the session is
\* sleeping, and from then on no response.create is sent.
C23_NothingPendingAfterEndCall ==
    [][end_pc' = "returned" =>
          /\ \A t \in Tasks : tasks'[t].status # "sleeping"
          /\ end_pc = "returned" => batchSent' <= batchSent]_vars

(* ============== CallSessionManager: the periodic sweep ================= *)
(* Time passes in minutes, the period of _cleanup_loop.  The application   *)
(* starts through lifespan; callers create sessions, keep them busy or     *)
(* leave them alone.                                                       *)

TimedSids == {1, 2}
\* The clocks are followed two minutes past each limit.
IdleCap == VOICE_SESSION_TIMEOUT_MINUTES + 2
DurationCap == VOICE_SESSION_MAX_DURATION_MINUTES + 2

InitSweep ==
    /\ app = "starting"
    /\ cleanup_task = FALSE
    /\ timed_sessions = {}
    /\ idle_minutes = [s \in TimedSids |-> 0]
    /\ duration_minutes = [s \in TimedSids |-> 0]
    /\ channel_closed = {}

\* lifespan: whether the startup calls call_session_manager.start_cleanup_task.
LifespanStartsCleanup == FALSE

\* CallSession.is_expired
IsExpired(idle, duration) ==
    \/ idle > VOICE_SESSION_TIMEOUT_MINUTES
    \/ duration > VOICE_SESSION_MAX_DURATION_MINUTES

\* lifespan up to its yield: the application begins to serve.
LifespanStartup ==
    /\ app = "starting"
    /\ app' = "serving"
    /\ cleanup_task' = LifespanStartsCleanup
    /\ UNCHANGED <<timed_sessions, idle_minutes, duration_minutes,
                   channel_closed>>
    /\ UNCHANGED notSweepVars

\* create_session registers session s: created_at = last_activity = now.
TimedCreateSession(s) ==
    /\ app = "serving"
    /\ s \notin timed_sessions
    /\ duration_minutes[s] = 0
    /\ timed_sessions' = timed_sessions \cup {s}
    /\ UNCHANGED <<app, cleanup_task, idle_minutes, duration_minutes,
                   channel_closed>>
    /\ UNCHANGED notSweepVars

\* Activity on session s: update_activity (activate_session, add_message).
UpdateActivity(s) ==
    /\ s \in timed_sessions
    /\ idle_minutes[s] > 0
    /\ idle_minutes' = [idle_minutes EXCEPT ![s] = 0]
    /\ UNCHANGED <<app, cleanup_task, timed_sessions, duration_minutes,
                   channel_closed>>
    /\ UNCHANGED notSweepVars

\* A minute passes; _cleanup_loop, if it runs, wakes from its sleep(60) and
\* cleanup_expired_sessions ends every session that is_expired.
MinutePasses ==
    /\ app = "serving"
    /\ timed_sessions # {}
    /\ LET idle == [s \in TimedSids |->
                      IF s \in timed_sessions /\ idle_minutes[s] < IdleCap
                      THEN idle_minutes[s] + 1 ELSE idle_minutes[s]]
           duration == [s \in TimedSids |->
                      IF s \in timed_sessions /\ duration_minutes[s] < DurationCap
                      THEN duration_minutes[s] + 1 ELSE duration_minutes[s]]
           expired == {s \in timed_sessions : IsExpired(idle[s], duration[s])}
       IN /\ idle_minutes' = idle
          /\ duration_minutes' = duration
          /\ timed_sessions' = IF cleanup_task THEN timed_sessions \ expired
                               ELSE timed_sessions
    /\ UNCHANGED <<app, cleanup_task, channel_closed>>
    /\ UNCHANGED notSweepVars

\* The external channel of session s closes: _listen_to_openai leaves its
\* loop on ConnectionClosed, sets the bridge state to ENDED and reports it
\* with on_state_change.  The handler of the call goes on waiting for the
\* caller's next frame.
DuplexChannelCloses(s) ==
    /\ s \in timed_sessions
    /\ s \notin channel_closed
    /\ channel_closed' = channel_closed \cup {s}
    /\ UNCHANGED <<app, cleanup_task, timed_sessions, idle_minutes,
                   duration_minutes>>
    /\ UNCHANGED notSweepVars

\* The caller of session s sends end_call or disconnects: the finally block
\* of the handler ends the bridge session and the call session.
CallerLeaves(s) ==
    /\ s \in timed_sessions
    /\ timed_sessions' = timed_sessions \ {s}
    /\ channel_closed' = channel_closed \ {s}
    /\ UNCHANGED <<app, cleanup_task, idle_minutes, duration_minutes>>
    /\ UNCHANGED notSweepVars

NextSweep ==
    \/ LifespanStartup
    \/ \E s \in TimedSids : TimedCreateSession(s)
    \/ \E s \in TimedSids : UpdateActivity(s)
    \/ MinutePasses

\* Calls whose external channel may close while the caller stays silent.
NextClose ==
    \/ LifespanStartup
    \/ \E s \in TimedSids : TimedCreateSession(s)
    \/ MinutePasses
    \/ \E s \in TimedSids : DuplexChannelCloses(s)
    \/ \E s \in TimedSids : CallerLeaves(s)

\* C11: a registered session is never found more than one sweep period past
\* the moment it became eligible: idle for more than
\* VOICE_SESSION_TIMEOUT_MINUTES or older than
\* VOICE_SESSION_MAX_DURATION_MINUTES.
C11_ExpiredSessionSwept ==
    \A s \in timed_sessions :
        /\ idle_minutes[s] <= VOICE_SESSION_TIMEOUT_MINUTES + 1
        /\ duration_minutes[s] <= VOICE_SESSION_MAX_DURATION_MINUTES + 1

\* C27: a call session whose external channel has closed is eventually out
\* of the registry, whatever the caller does or does not do.
C27_ClosedChannelEndsSession ==
    \A s \in TimedSids :
        (s \in channel_closed /\ s \in timed_sessions)
            ~> (s \notin timed_sessions)

(* ============ websocket_voice_call: frames of a started call =========== *)
(* One connection.  A chunk carries data: a frame whose data field is      *)
(* empty is skipped before any check.                                      *)

ChunkSizes ==
    {1, VOICE_MAX_AUDIO_BYTES_PER_SECOND - 1, VOICE_MAX_AUDIO_BYTES_PER_SECOND,
     VOICE_MAX_AUDIO_BYTES_PER_SECOND + 1}

Reply(frame, size, event) == [frame |-> frame, size |-> size, event |-> event]

InitAudio ==
    /\ loop_open = TRUE
    /\ loop_started = FALSE
    /\ total_audio_bytes_received = 0
    /\ channel_audio_bytes = 0
    /\ is_muted = FALSE
    /\ chunks = 0
    /\ reply = Reply(NONE, 0, NONE)

\* A limiter that also turns away a chunk of exactly the ceiling.
M_CheckRateLimit(audio_bytes) == audio_bytes < VOICE_MAX_AUDIO_BYTES_PER_SECOND

\* check_rate_limit: False if audio_bytes > max_bytes.
CheckRateLimit(audio_bytes) == ~(audio_bytes > VOICE_MAX_AUDIO_BYTES_PER_SECOND)

\* start_call succeeded: call_session and openai_session are set.
LoopCallStarted ==
    /\ loop_open
    /\ ~loop_started
    /\ loop_started' = TRUE
    /\ reply' = Reply("start_call", 0, "call_started")
    /\ UNCHANGED <<loop_open, total_audio_bytes_received, channel_audio_bytes,
                   is_muted, chunks>>
    /\ UNCHANGED notAudioVars

\* audio_chunk with size decoded bytes
LoopAudioChunk(size) ==
    /\ loop_open
    /\ chunks < MaxChunks
    /\ chunks' = chunks + 1
    /\ IF ~loop_started
       THEN /\ reply' = Reply("audio_chunk", size, "call_not_started")
            /\ UNCHANGED <<total_audio_bytes_received, channel_audio_bytes>>
       ELSE /\ reply' = Reply("audio_chunk", size, NONE)
            /\ IF CheckRateLimit(size)
               THEN /\ total_audio_bytes_received' =
                          total_audio_bytes_received + size
                    /\ channel_audio_bytes' = channel_audio_bytes + size
               ELSE UNCHANGED <<total_audio_bytes_received, channel_audio_bytes>>
    /\ UNCHANGED <<loop_open, loop_started, is_muted>>
    /\ UNCHANGED notAudioVars

\* mute / unmute
LoopMute(m) ==
    /\ loop_open
    /\ IF loop_started
       THEN /\ is_muted' = m
            /\ reply' = Reply(IF m THEN "mute" ELSE "unmute", 0, "state_change")
       ELSE /\ reply' = Reply(IF m THEN "mute" ELSE "unmute", 0, NONE)
            /\ UNCHANGED is_muted
    /\ UNCHANGED <<loop_open, loop_started, total_audio_bytes_received,
                   channel_audio_bytes, chunks>>
    /\ UNCHANGED notAudioVars

\* Frames that are none of the messages of the protocol: a text that is not
\* JSON, an object with a type the loop does not know, an object without a
\* type (read as ""), and a JSON text that is not an object.
OtherFrames == {"not json", "dance", "", "42"}

\* json.loads of the frame: it raises JSONDecodeError, or gives an object or
\* a number.
JsonLoads(data) ==
    CASE data = "not json" -> "JSONDecodeError"
      [] data = "42" -> "number"
      [] OTHER -> "object"

\* A loop that reports every frame it cannot use as invalid JSON.
M_ErrorCode(parsed) == "invalid_json"

\* The code of the error event: invalid_json from the except branch of
\* json.loads, unknown_message_type from the last else of the loop.
ErrorCode(parsed) ==
    IF parsed = "JSONDecodeError" THEN "invalid_json"
    ELSE "unknown_message_type"

\* A frame of OtherFrames.  On JSONDecodeError and on an unknown type the
\* error event is sent and the loop reads on.  A JSON value that is not an
\* object has no get: the exception leaves the loop through except
\* Exception.
LoopOtherFrame(data) ==
    /\ loop_open
    /\ IF JsonLoads(data) = "number"
       THEN /\ loop_open' = FALSE
            /\ reply' = Reply(data, 0, NONE)
       ELSE /\ reply' = Reply(data, 0, ErrorCode(JsonLoads(data)))
            /\ UNCHANGED loop_open
    /\ UNCHANGED <<loop_started, total_audio_bytes_received,
                   channel_audio_bytes, is_muted, chunks>>
    /\ UNCHANGED notAudioVars

NextAudio ==
    \/ LoopCallStarted
    \/ \E size \in ChunkSizes : LoopAudioChunk(size)
    \/ \E m \in BOOLEAN : LoopMute(m)
    \/ \E data \in OtherFrames : LoopOtherFrame(data)

\* C12: on a started call a chunk is forwarded and counted if and only if
\* its size is at most VOICE_MAX_AUDIO_BYTES_PER_SECOND; a chunk over the
\* ceiling is neither forwarded nor counted, nothing is sent to the caller
\* and the call stays started.
C12_RateLimitCeiling ==
    [][(loop_started /\ reply'.frame = "audio_chunk") =>
          /\ reply'.event = NONE
          /\ loop_started'
          /\ IF reply'.size <= VOICE_MAX_AUDIO_BYTES_PER_SECOND
             THEN /\ total_audio_bytes_received' =
                        total_audio_bytes_received + reply'.size
                  /\ channel_audio_bytes' = channel_audio_bytes + reply'.size
             ELSE /\ total_audio_bytes_received' = total_audio_bytes_received
                  /\ channel_audio_bytes' = channel_audio_bytes]_audioVars

\* A chunk of exactly the ceiling was counted and forwarded, and the chunk
\* after it, one byte larger, was dropped.
C12_Witness ==
    /\ loop_started
    /\ reply = Reply("audio_chunk", VOICE_MAX_AUDIO_BYTES_PER_SECOND + 1, NONE)
    /\ total_audio_bytes_received = VOICE_MAX_AUDIO_BYTES_PER_SECOND
    /\ channel_audio_bytes = VOICE_MAX_AUDIO_BYTES_PER_SECOND

\* C18: a frame that is not JSON is answered with error invalid_json and a
\* frame with an unknown type with error unknown_message_type; the loop
\* keeps running and the call, the bytes counted and forwarded and the mute
\* flag are as before.
C18_MalformedFrameKeepsSession ==
    [][(loop_open /\ reply'.frame \in {"not json", "dance", ""}) =>
          /\ reply'.event = IF reply'.frame = "not json"
                            THEN "invalid_json" ELSE "unknown_message_type"
          /\ loop_open'
          /\ UNCHANGED <<loop_started, total_audio_bytes_received,
                         channel_audio_bytes, is_muted, chunks>>]_audioVars

\* A started call that has counted audio answered a frame of unknown type
\* and is still running.
C18_Witness ==
    /\ reply = Reply("dance", 0, "unknown_message_type")
    /\ loop_open
    /\ loop_started
    /\ total_audio_bytes_received > 0

\* C30: while the call session is muted, an audio_chunk frame adds nothing
\* to what has been forwarded to the external channel.
C30_MutedAudioNotForwarded ==
    [][(is_muted /\ chunks' = chunks + 1) =>
          channel_audio_bytes' = channel_audio_bytes]_vars

(* ======= RealtimeVoiceService with websocket_voice_realtime ============ *)
(* The handler is one task: it reads a frame, handles it to the end, then  *)
(* reads the next.  Callbacks schedule their send with create_task; the    *)
(* scheduled sends run, oldest first, when the handler next suspends, and  *)
(* a send the handler awaits itself is started before them.  Every step    *)
(* below ends where the handler suspends, so outbox gets the events of a   *)
(* step in that order.                                                     *)

FrameTypes == {"audio_chunk", "end_speech", "interrupt"}
Frame(type, id) == [type |-> type, id |-> id]
StateChange(s) == [type |-> "state_change", state |-> s]
Event(type) == [type |-> type, state |-> NONE]

InitTurn ==
    /\ tb_state = "idle"
    /\ audio_buffer = <<>>
    /\ cancel_event = FALSE
    /\ inbox = <<>>
    /\ frames_sent = 0
    /\ hpc = "recv"
    /\ outbox = <<>>
    /\ transitions = {}
    /\ interrupt_seen = FALSE

\* The changes of state along a run of assignments to session.state.
Changes(path) ==
    {<<path[i], path[i + 1]>> : i \in {j \in 1..(Len(path) - 1) :
                                          path[j] # path[j + 1]}}

\* The parameters of TeacherService.answer_student_question, and the keyword
\* arguments stream_ai_response calls it with.
AnswerParameters == {"document_id", "question", "student_name"}
AnswerArguments == {"question", "document_id", "voice"}

\* A call with a keyword the method does not have raises TypeError when it
\* is made, before anything is awaited.
AnswerCallRaises == ~(AnswerArguments \subseteq AnswerParameters)

\* stream_ai_response: the state goes to AI_SPEAKING, then the answer is
\* asked for.  When the call raises, except Exception puts the state back to
\* IDLE and the generator ends without a chunk and without text_response.
StreamAiResponse ==
    IF AnswerCallRaises
    THEN [events |-> <<StateChange("ai_speaking"), StateChange("idle")>>,
          state |-> "idle", hpc |-> "recv"]
    ELSE [events |-> <<StateChange("ai_speaking")>>,
          state |-> "ai_speaking", hpc |-> "answering"]

\* process_user_speech: on_transcription is called if the text is not empty.
TranscriptionEvents(transcription) ==
    IF transcription = "text" THEN <<Event("transcription")>> ELSE <<>>

\* The caller sends a frame; it waits in the transport until the handler
\* reads it.
CallerSends(type) ==
    /\ frames_sent < MaxFrames
    /\ frames_sent' = frames_sent + 1
    /\ inbox' = Append(inbox, Frame(type, frames_sent + 1))
    /\ UNCHANGED <<tb_state, audio_buffer, cancel_event, hpc, outbox,
                   transitions, interrupt_seen>>
    /\ UNCHANGED notTurnVars

\* handle_audio_chunk with _handle_interruption: current_task is never set,
\* so nothing is waited for.
HandleAudioChunk(id) ==
    LET interrupts == tb_state = "ai_speaking"
        s1 == IF interrupts THEN "interrupted" ELSE tb_state
        ev1 == IF interrupts THEN <<StateChange("interrupted")>> ELSE <<>>
        buf1 == IF interrupts THEN <<>> ELSE audio_buffer
        toUser == s1 \in {"idle", "interrupted"}
        ev2 == IF toUser THEN <<StateChange("user_speaking")>> ELSE <<>>
    IN /\ tb_state' = IF toUser THEN "user_speaking" ELSE s1
       /\ audio_buffer' = Append(buf1, id)
       /\ cancel_event' = IF interrupts THEN FALSE ELSE cancel_event
       /\ outbox' = outbox \o ev1 \o ev2
       /\ transitions' = transitions \cup
             Changes(<<tb_state, s1, IF toUser THEN "user_speaking" ELSE s1>>)
       /\ UNCHANGED <<hpc, interrupt_seen>>

\* end_speech up to the await of transcribe_audio; with an empty buffer the
\* turn is over at once.
HandleEndSpeech ==
    IF audio_buffer = <<>>
    THEN /\ tb_state' = "idle"
         /\ outbox' = <<Event("audio_end"), StateChange("idle")>>
         /\ transitions' = transitions \cup Changes(<<tb_state, "idle">>)
         /\ UNCHANGED <<hpc, audio_buffer, cancel_event, interrupt_seen>>
    ELSE /\ tb_state' = "processing"
         /\ outbox' = <<StateChange("processing")>>
         /\ transitions' = transitions \cup Changes(<<tb_state, "processing">>)
         /\ hpc' = "transcribing"
         /\ UNCHANGED <<audio_buffer, cancel_event, interrupt_seen>>

\* An interrupt branch that does not look at the state.
M_InterruptApplies(s) == TRUE

\* interrupt frame: if session.state == ConversationState.AI_SPEAKING
InterruptApplies(s) == s = "ai_speaking"

\* interrupt frame
HandleInterrupt ==
    /\ interrupt_seen' = TRUE
    /\ IF InterruptApplies(tb_state)
       THEN /\ cancel_event' = TRUE
            /\ tb_state' = "interrupted"
            /\ outbox' = Append(outbox, StateChange("interrupted"))
            /\ transitions' = transitions \cup
                  Changes(<<tb_state, "interrupted">>)
            /\ UNCHANGED <<hpc, audio_buffer>>
       ELSE UNCHANGED <<tb_state, audio_buffer, cancel_event, hpc, outbox,
                        transitions>>

\* The handler reads the next frame and handles it.
HandleFrame ==
    /\ hpc = "recv"
    /\ inbox # <<>>
    /\ inbox' = Tail(inbox)
    /\ LET f == Head(inbox) IN
       CASE f.type = "audio_chunk" -> HandleAudioChunk(f.id)
         [] f.type = "end_speech" -> HandleEndSpeech
         [] OTHER -> HandleInterrupt
    /\ UNCHANGED frames_sent
    /\ UNCHANGED notTurnVars

\* transcribe_audio returns.  On a text handle_end_speech goes on into
\* stream_ai_response; when that ends, and on no text, the handler sends
\* audio_end and the turn is over.
TranscribeDone(outcome) ==
    /\ hpc = "transcribing"
    /\ IF outcome = "text"
       THEN LET r == StreamAiResponse IN
            /\ tb_state' = r.state
            /\ audio_buffer' = <<>>
            /\ outbox' = outbox
                   \o (IF r.hpc = "recv" THEN <<Event("audio_end")>> ELSE <<>>)
                   \o TranscriptionEvents(outcome) \o r.events
            /\ transitions' = transitions \cup
                  Changes(<<tb_state, "ai_speaking", r.state>>)
            /\ hpc' = r.hpc
       ELSE /\ tb_state' = "idle"
            /\ audio_buffer' = IF outcome = "empty" THEN <<>> ELSE audio_buffer
            /\ outbox' = outbox \o <<Event("audio_end")>>
                   \o (IF outcome = "error" THEN <<StateChange("idle")>> ELSE <<>>)
                   \o <<StateChange("idle")>>
            /\ transitions' = transitions \cup Changes(<<tb_state, "idle">>)
            /\ hpc' = "recv"
    /\ UNCHANGED <<cancel_event, inbox, frames_sent, interrupt_seen>>
    /\ UNCHANGED notTurnVars

NextTurn ==
    \/ \E type \in FrameTypes : CallerSends(type)
    \/ HandleFrame
    \/ \E outcome \in {"text", "empty", "error"} : TranscribeDone(outcome)

EventsAt(type) == {i \in 1..Len(outbox) : outbox[i].type = type}

\* C16: when a turn in which the caller's speech was transcribed is over, the
\* caller has received the transcription, then the audio chunks of the reply
\* (there is a last one), then exactly one audio_end.
C16_TurnEventOrder ==
    (hpc = "recv" /\ EventsAt("transcription") # {}) =>
        /\ EventsAt("audio_chunk") # {}
        /\ \A i \in EventsAt("audio_chunk") :
              \E j \in EventsAt("transcription") : j < i
        /\ Cardinality(EventsAt("audio_end")) = 1
        /\ \A i \in EventsAt("audio_end") :
              \A j \in EventsAt("audio_chunk") : j < i

\* C24: when an end_speech has been handled and the session is idle again,
\* whatever became of the transcription, the audio buffer is empty.
C24_BufferEmptyAfterEndSpeech ==
    (hpc = "recv" /\ tb_state = "idle" /\ EventsAt("audio_end") # {}) =>
        audio_buffer = <<>>

C29_StreamAfterInterruptInFull ==
    [][(/\ interrupt_seen
        /\ hpc = "transcribing"
        /\ StateChange("ai_speaking") \in
               {outbox'[i] : i \in (Len(outbox) + 1)..Len(outbox')})
          => /\ ~cancel_event
             /\ \E i \in 1..Len(outbox') : outbox'[i].type = "audio_chunk"
             /\ hpc' = "recv" => tb_state' = "idle"]_vars

(* ========== OpenAIRealtimeService._handle_function_call ================ *)
(* The listener awaits _handle_function_call for each                      *)
(* response.function_call_arguments.done event, so the tool calls of a     *)
(* session are handled one after the other.                                *)

ToolNames == {"search_document", "extract_all"}

\* The arguments of a function call: the query (extraction_type) is there,
\* is the empty string or missing, or the text is not JSON.
ToolArguments == {"query", "empty", "malformed"}

\* What the collaborator does: it finds passages (items), finds nothing, or
\* raises.
ToolOutcomes == {"found", "nothing", "raises"}

NoCall == [call_id |-> 0, name |-> NONE]

InitTool ==
    /\ fc_pc = "listen"
    /\ fc_received = 0
    /\ fc_current = NoCall
    /\ fc_outputs = <<>>
    /\ fc_scheduled = 0
    /\ fc_is_active = TRUE
    /\ fc_ws_open = TRUE

\* _search_document_for_context: the passages, or a note.
SearchDocumentForContext(outcome) ==
    CASE outcome = "found" -> "passages"
      [] outcome = "nothing" -> "No relevant information found"
      [] OTHER -> "Unable to search the document at this time."

\* _extract_all_from_document: the items, or a note.
ExtractAllFromDocument(outcome) ==
    CASE outcome = "found" -> "items"
      [] outcome = "nothing" -> "No matching items found in the document."
      [] OTHER -> "Unable to perform extraction at this time."

\* A function call arrives.  json.loads raises on malformed arguments and
\* the outer except logs it; with an empty query (extraction_type) no branch
\* is taken.  In both cases the handler returns.  Otherwise it awaits the
\* collaborator.
FunctionCallArrives(name, arguments) ==
    /\ fc_pc = "listen"
    /\ fc_ws_open
    /\ fc_received < MaxToolCalls
    /\ fc_received' = fc_received + 1
    /\ IF arguments = "query"
       THEN /\ fc_pc' = "tool"
            /\ fc_current' = [call_id |-> fc_received + 1, name |-> name]
       ELSE UNCHANGED <<fc_pc, fc_current>>
    /\ UNCHANGED <<fc_outputs, fc_scheduled, fc_is_active, fc_ws_open>>
    /\ UNCHANGED notToolVars

\* The collaborator is done: the result is sent as function_call_output and
\* the reply is scheduled.  A send that raises ends the handler in its
\* outer except.
ToolReturns(outcome) ==
    /\ fc_pc = "tool"
    /\ LET result == IF fc_current.name = "search_document"
                     THEN SearchDocumentForContext(outcome)
                     ELSE ExtractAllFromDocument(outcome)
       IN IF fc_ws_open
          THEN /\ fc_outputs' = Append(fc_outputs,
                      [call_id |-> fc_current.call_id, output |-> result])
               /\ fc_scheduled' = fc_scheduled + 1
          ELSE UNCHANGED <<fc_outputs, fc_scheduled>>
    /\ fc_pc' = "listen"
    /\ fc_current' = NoCall
    /\ UNCHANGED <<fc_received, fc_is_active, fc_ws_open>>
    /\ UNCHANGED notToolVars

\* The external service closes the channel while a tool call is out.
ToolChannelCloses ==
    /\ fc_pc = "tool"
    /\ fc_ws_open
    /\ fc_ws_open' = FALSE
    /\ UNCHANGED <<fc_pc, fc_received, fc_current, fc_outputs, fc_scheduled,
                   fc_is_active>>
    /\ UNCHANGED notToolVars

NextTool ==
    \/ \E name \in ToolNames, arguments \in ToolArguments :
          FunctionCallArrives(name, arguments)
    \/ \E outcome \in ToolOutcomes : ToolReturns(outcome)
    \/ ToolChannelCloses

\* C17: while the channel is open, every function call the handler has
\* finished with got a function_call_output under its call id and one
\* scheduling of the reply, and the session is still active.
C17_EveryToolCallAnswered ==
    (fc_pc = "listen" /\ fc_ws_open) =>
        /\ \A id \in 1..fc_received :
              \E i \in 1..Len(fc_outputs) : fc_outputs[i].call_id = id
        /\ fc_scheduled = fc_received
        /\ fc_is_active

(* ================= conversation_history of a call ====================== *)

InitHistory ==
    /\ hist_clock = 0
    /\ cs_last_activity = 0
    /\ cs_history = <<>>
    /\ cs_added = 0
    /\ vc_history = <<>>
    /\ vc_added = 0

\* A cap that keeps the oldest entries.
M_KeepLast(history, limit) ==
    IF Len(history) > limit THEN SubSeq(history, 1, limit) ELSE history

\* if len(history) > limit: history = history[-limit:]
KeepLast(history, limit) ==
    IF Len(history) > limit
    THEN SubSeq(history, Len(history) - limit + 1, Len(history))
    ELSE history

\* Time passes.
HistoryTick ==
    /\ hist_clock < MaxClock
    /\ hist_clock' = hist_clock + 1
    /\ UNCHANGED <<cs_last_activity, cs_history, cs_added, vc_history,
                   vc_added>>
    /\ UNCHANGED notHistVars

\* CallSession.add_message: append, update_activity, cap.
AddMessage ==
    /\ cs_added < MaxMessages
    /\ cs_added' = cs_added + 1
    /\ cs_history' = KeepLast(Append(cs_history, cs_added + 1),
                              CALL_HISTORY_LIMIT)
    /\ cs_last_activity' = hist_clock
    /\ UNCHANGED <<hist_clock, vc_history, vc_added>>
    /\ UNCHANGED notHistVars

\* VoiceCallSession.add_to_history: append, cap.
AddToHistory ==
    /\ vc_added < MaxMessages
    /\ vc_added' = vc_added + 1
    /\ vc_history' = KeepLast(Append(vc_history, vc_added + 1),
                              BRIDGE_HISTORY_LIMIT)
    /\ UNCHANGED <<hist_clock, cs_last_activity, cs_history, cs_added>>
    /\ UNCHANGED notHistVars

NextHistory ==
    \/ HistoryTick
    \/ AddMessage
    \/ AddToHistory

\* The last min(n, limit) of the messages 1..n, oldest first.
MostRecent(n, limit) ==
    LET len == IF n < limit THEN n ELSE limit
    IN [i \in 1..len |-> n - len + i]

\* C19: after n messages a conversation history has at most 20 entries and
\* holds the most recent min(n, 20) of them in the order they were added.
C19_HistoryKeepsMostRecent ==
    /\ Len(cs_history) <= 20
    /\ cs_history = MostRecent(cs_added, 20)
    /\ Len(vc_history) <= 20
    /\ vc_history = MostRecent(vc_added, 20)

\* More than 20 messages were added: the history starts at the 20th from
\* the end.
C19_Witness ==
    /\ cs_added > 20
    /\ Len(cs_history) = 20
    /\ cs_history[1] = cs_added - 19
    /\ cs_history[20] = cs_added

(* ============ WebSocketProxy.proxy_websocket: the two forwarding tasks ==== *)

InitProxy ==
    /\ client_conn = "open"
    /\ client_state = "CONNECTED"
    /\ backend_conn = "open"
    /\ to_backend_task = "receiving"
    /\ to_client_task = "iterating"
    /\ proxy_pc = "gather"
    /\ sent_to_backend = 0
    /\ sent_to_client = 0
    /\ dropped = 0

\* The caller sends a message.  forward_to_backend reads it and passes it to
\* backend_ws.send, which raises on a closed connection; the task catches
\* the exception and returns.  A message sent after the task has returned
\* is read by nobody.
ClientSends ==
    /\ client_conn = "open"
    /\ to_backend_task = "receiving"
    /\ sent_to_backend < MaxProxyMessages
    /\ IF backend_conn = "open"
         THEN /\ sent_to_backend' = sent_to_backend + 1
              /\ UNCHANGED to_backend_task
         ELSE /\ to_backend_task' = "done"
              /\ UNCHANGED sent_to_backend
    /\ UNCHANGED <<client_conn, client_state, backend_conn, to_client_task,
                   proxy_pc, sent_to_client, dropped>>
    /\ UNCHANGED notProxyVars

\* The backend sends a message.  forward_to_client forwards it only while
\* client_state is CONNECTED.
BackendSends ==
    /\ backend_conn = "open"
    /\ to_client_task = "iterating"
    /\ sent_to_client + dropped < MaxProxyMessages
    /\ IF client_state = "CONNECTED"
         THEN /\ sent_to_client' = sent_to_client + 1
              /\ UNCHANGED dropped
         ELSE /\ dropped' = dropped + 1
              /\ UNCHANGED sent_to_client
    /\ UNCHANGED <<client_conn, client_state, backend_conn, to_backend_task,
                   to_client_task, proxy_pc, sent_to_backend>>
    /\ UNCHANGED notProxyVars

\* The caller disconnects.  A pending receive_text raises WebSocketDisconnect
\* and forward_to_backend returns.
ClientDisconnects ==
    /\ client_conn = "open"
    /\ proxy_pc = "gather"
    /\ client_conn' = "closed"
    /\ IF to_backend_task = "receiving"
         THEN /\ to_backend_task' = "done"
              /\ client_state' = "DISCONNECTED"
         ELSE UNCHANGED <<to_backend_task, client_state>>
    /\ UNCHANGED <<backend_conn, to_client_task, proxy_pc, sent_to_backend,
                   sent_to_client, dropped>>
    /\ UNCHANGED notProxyVars

\* The backend closes its connection.  The iteration over backend_ws ends (or
\* raises, which the task catches) and forward_to_client returns.
BackendCloses ==
    /\ backend_conn = "open"
    /\ proxy_pc = "gather"
    /\ backend_conn' = "closed"
    /\ to_client_task' = "done"
    /\ UNCHANGED <<client_conn, client_state, to_backend_task, proxy_pc,
                   sent_to_backend, sent_to_client, dropped>>
    /\ UNCHANGED notProxyVars

\* asyncio.gather returns once both tasks have returned.  Leaving the
\* `async with` closes backend_ws, and the finally block closes client_ws if
\* it is still CONNECTED.
GatherReturns ==
    /\ proxy_pc = "gather"
    /\ to_backend_task = "done"
    /\ to_client_task = "done"
    /\ proxy_pc' = "returned"
    /\ backend_conn' = "closed"
    /\ client_conn' = "closed"
    /\ client_state' = "DISCONNECTED"
    /\ UNCHANGED <<to_backend_task, to_client_task, sent_to_backend,
                   sent_to_client, dropped>>
    /\ UNCHANGED notProxyVars

NextProxy ==
    \/ ClientSends
    \/ BackendSends
    \/ ClientDisconnects
    \/ BackendCloses
    \/ GatherReturns

\* C28: when one end of a proxied connection has closed, the other end is
\* eventually closed too, whether or not the open side sends anything more.
C28_OtherEndClosesToo ==
    /\ (client_conn = "closed") ~> (backend_conn = "closed")
    /\ (backend_conn = "closed") ~> (client_conn = "closed")

(* ========================= specifications ============================== *)

Init == InitCall /\ InitBridge /\ InitDebounce /\ InitSweep /\ InitAudio /\
    InitTurn /\ InitTool /\ InitHistory /\ InitProxy

Next == NextCall \/ NextBridge \/ NextDebounce \/ NextSweep \/ NextClose \/
    NextAudio \/ NextTurn \/ NextTool \/ NextHistory \/ NextProxy

Spec == Init /\ [][Next]_vars

SpecCall == Init /\ [][NextCall]_vars

SpecBridge == Init /\ [][NextBridge]_vars

SpecDebounce == Init /\ [][NextDebounce]_vars

SpecSweep == Init /\ [][NextSweep]_vars

SpecAudio == Init /\ [][NextAudio]_vars

SpecTurn == Init /\ [][NextTurn]_vars

SpecTool == Init /\ [][NextTool]_vars

SpecHistory == Init /\ [][NextHistory]_vars

\* The application starts and time passes, whatever the callers do.
SpecClose ==
    /\ Init
    /\ [][NextClose]_vars
    /\ WF_vars(LifespanStartup)
    /\ WF_vars(MinutePasses)

SpecProxy == Init /\ [][NextProxy]_vars /\ WF_vars(GatherReturns)

====
